---- MODULE Spec2Model ----
(***************************************************************************)
(* Model of the travel assistant: the chat component (Chat.tsx) and the    *)
(* request-forwarding function with its conversation normalizer.           *)
(*                                                                         *)
(* JavaScript values are modelled as follows.                              *)
(*   - a string whose characters matter (an image payload, an input text)  *)
(*     is a sequence of one-character strings;                             *)
(*   - a value of a union type (string | Buffer | null) is a record whose  *)
(*     "typeof" field is what JavaScript's typeof yields;                  *)
(*   - a Buffer is a sequence of integers in 0..255;                       *)
(*   - fixed texts that are only compared (error messages, roles) are      *)
(*     TLA+ strings.                                                       *)
(***************************************************************************)
EXTENDS Integers, Sequences, FiniteSets, Bags, TLC

\* ------------------------------------------------------------------------
\* JavaScript values
\* ------------------------------------------------------------------------

JSNull == [typeof |-> "object", isNull |-> TRUE]

JSString(s) == [typeof |-> "string", chars |-> s]

JSBuffer(b) == [typeof |-> "object", buffer |-> b]

\* What JSON.stringify followed by JSON.parse leaves of a Buffer: the plain
\* object {type: "Buffer", data: [...]}.
JSPlainBuffer(b) == [typeof |-> "object", type |-> "Buffer", data |-> b]

IsString(v) == v.typeof = "string"

IsNull(v) == "isNull" \in DOMAIN v

JSUndefined == [typeof |-> "undefined"]

IsUndefined(v) == v.typeof = "undefined"

JSNumber(n) == [typeof |-> "number", value |-> n]

IsNumber(v) == v.typeof = "number"

\* JavaScript truthiness: null, undefined, the empty string and 0 are falsy;
\* every other string, every other number and every object is truthy.
Truthy(v) ==
  IF IsString(v) THEN ("chars" \in DOMAIN v => v.chars # <<>>)
  ELSE IF IsNumber(v) THEN v.value # 0
  ELSE ~IsUndefined(v) /\ ~IsNull(v)

\* ------------------------------------------------------------------------
\* Characters, base64 and the data-URI header
\* ------------------------------------------------------------------------

B64Alphabet ==
  << "A","B","C","D","E","F","G","H","I","J","K","L","M",
     "N","O","P","Q","R","S","T","U","V","W","X","Y","Z",
     "a","b","c","d","e","f","g","h","i","j","k","l","m",
     "n","o","p","q","r","s","t","u","v","w","x","y","z",
     "0","1","2","3","4","5","6","7","8","9","+","/" >>

LowerCase == { B64Alphabet[i] : i \in 27..52 }

\* The decoding table: the sextet of each character of the alphabet.
B64Value ==
  [c \in {B64Alphabet[i] : i \in 1..64} |->
     (CHOOSE i \in 1..64 : B64Alphabet[i] = c) - 1]

\* The sextet a character stands for, or -1 for a character outside the
\* alphabet ("-" and "_" are accepted as the URL-safe forms of "+" and "/").
Unbase64(c) ==
  IF c \in DOMAIN B64Value THEN B64Value[c]
  ELSE IF c = "-" THEN 62 ELSE IF c = "_" THEN 63 ELSE -1

RECURSIVE Sextets(_)
\* The sextets of a base64 text as the decoder reads them: characters outside
\* the alphabet are skipped and decoding stops at the first "=".
Sextets(s) ==
  IF s = <<>> \/ Head(s) = "=" THEN <<>>
  ELSE IF Unbase64(Head(s)) < 0 THEN Sextets(Tail(s))
  ELSE <<Unbase64(Head(s))>> \o Sextets(Tail(s))

RECURSIVE SextetsToBytes(_)
SextetsToBytes(x) ==
  IF Len(x) < 2 THEN <<>>
  ELSE LET b1 == ((x[1] % 64) * 4) + (x[2] \div 16)
       IN IF Len(x) = 2 THEN <<b1>>
          ELSE LET b2 == ((x[2] % 16) * 16) + (x[3] \div 4)
               IN IF Len(x) = 3 THEN <<b1, b2>>
                  ELSE <<b1, b2, ((x[3] % 4) * 64) + x[4]>>
                         \o SextetsToBytes(SubSeq(x, 5, Len(x)))

\* Buffer.from(s, 'base64')
BufferFromBase64(s) == SextetsToBytes(Sextets(s))

RECURSIVE Base64Encode(_)
\* The padded base64 text of a byte sequence, as FileReader.readAsDataURL
\* produces it.
Base64Encode(b) ==
  IF b = <<>> THEN <<>>
  ELSE LET c1 == B64Alphabet[(b[1] \div 4) + 1]
       IN IF Len(b) = 1
            THEN <<c1, B64Alphabet[((b[1] % 4) * 16) + 1], "=", "=">>
          ELSE LET c2 == B64Alphabet[((b[1] % 4) * 16) + (b[2] \div 16) + 1]
               IN IF Len(b) = 2
                    THEN <<c1, c2, B64Alphabet[((b[2] % 16) * 4) + 1], "=">>
                  ELSE <<c1, c2,
                         B64Alphabet[((b[2] % 16) * 4) + (b[3] \div 64) + 1],
                         B64Alphabet[(b[3] % 64) + 1]>>
                         \o Base64Encode(SubSeq(b, 4, Len(b)))

DataImage == <<"d","a","t","a",":","i","m","a","g","e","/">>

Base64Comma == <<";","b","a","s","e","6","4",",">>

StartsWith(s, p) == Len(s) >= Len(p) /\ SubSeq(s, 1, Len(p)) = p

\* The length of the longest run of lower-case letters of s that starts at
\* position i (the greedy [a-z]+ of the header pattern).
RECURSIVE LowerRun(_, _)
LowerRun(s, i) ==
  IF i <= Len(s) /\ s[i] \in LowerCase THEN 1 + LowerRun(s, i + 1) ELSE 0

\* s.replace(/^data:image\/[a-z]+;base64,/, '')
StripDataUriHeader(s) ==
  IF ~StartsWith(s, DataImage) THEN s
  ELSE LET n == LowerRun(s, Len(DataImage) + 1)
           rest == SubSeq(s, Len(DataImage) + n + 1, Len(s))
       IN IF n >= 1 /\ StartsWith(rest, Base64Comma)
            THEN SubSeq(rest, Len(Base64Comma) + 1, Len(rest))
            ELSE s

\* ------------------------------------------------------------------------
\* Messages
\* ------------------------------------------------------------------------

TextItem(t) == [text |-> t]

ImageItem(f, b) == [image |-> [format |-> f, source |-> [bytes |-> b]]]

IsImage(item) == "image" \in DOMAIN item

Message(r, c) == [role |-> r, content |-> c]

\* ------------------------------------------------------------------------
\* JSON transport strings
\* ------------------------------------------------------------------------

\* What JSON.stringify keeps of a value of a bytes field: a Buffer is
\* serialized through its toJSON as a plain object.
BytesToJSON(v) == IF "buffer" \in DOMAIN v THEN JSPlainBuffer(v.buffer) ELSE v

ItemToJSON(item) ==
  IF IsImage(item)
    THEN ImageItem(item.image.format, BytesToJSON(item.image.source.bytes))
    ELSE item

MessageToJSON(m) ==
  Message(m.role, [i \in 1..Len(m.content) |-> ItemToJSON(m.content[i])])

\* A transport string is either the JSON text of a value or a text that is no
\* JSON at all.
JSONStringifyConversation(c) ==
  [typeof |-> "string", json |-> [i \in 1..Len(c) |-> MessageToJSON(c[i])]]

JSONStringifyMessage(m) == [typeof |-> "string", json |-> MessageToJSON(m)]

NotJSON == [typeof |-> "string", garbage |-> TRUE]

JSONParses(s) == "json" \in DOMAIN s

JSONParse(s) == s.json

\* ------------------------------------------------------------------------
\* Forwarding function: the conversation normalizer and the handler
\* ------------------------------------------------------------------------

\* A structured conversation passed as a value (not as a string).
JSArray(c) == [typeof |-> "object", array |-> c]

\* The callback of message.content.map in processMessages.
ProcessContent(content) ==
  IF IsImage(content) /\ Truthy(content.image.source.bytes)
    THEN IF IsString(content.image.source.bytes)
           THEN ImageItem(content.image.format,
                          JSBuffer(BufferFromBase64(
                            StripDataUriHeader(content.image.source.bytes.chars))))
           ELSE content
    ELSE content

\* The callback of parsedConversation.map in processMessages: a copy of the
\* message with its content mapped.
ProcessMessage(message) ==
  [message EXCEPT !.content =
     [i \in 1..Len(message.content) |-> ProcessContent(message.content[i])]]

\* The try block of processMessages: whether the argument yields a parsed
\* conversation, and which.
ConversationParses(conversation) ==
  IF IsString(conversation) THEN JSONParses(conversation) ELSE TRUE

ParsedConversation(conversation) ==
  IF IsString(conversation) THEN JSONParse(conversation) ELSE conversation.array

ReversedMessages(parsedConversation) ==
  [i \in 1..Len(parsedConversation) |->
     ProcessMessage(parsedConversation[Len(parsedConversation) + 1 - i])]

MapMessages(parsedConversation) ==
  [i \in 1..Len(parsedConversation) |-> ProcessMessage(parsedConversation[i])]

\* processMessages: the normalized messages, or the error it throws.
ProcessMessages(conversation) ==
  IF ConversationParses(conversation)
    THEN [ok |-> TRUE, messages |-> MapMessages(ParsedConversation(conversation))]
    ELSE [ok |-> FALSE, error |-> "Invalid conversation format"]

\* ------------------------------------------------------------------------
\* Chat component: pure parts
\* ------------------------------------------------------------------------

\* The characters String.prototype.trim removes: white space and line
\* terminators. A character outside the escapes of TLA+ strings is written
\* as its code point.
WhiteSpace ==
  { " ", "\t", "\n", "\r", "\f", "U+000B", "U+00A0", "U+1680",
    "U+2000", "U+2001", "U+2002", "U+2003", "U+2004", "U+2005", "U+2006",
    "U+2007", "U+2008", "U+2009", "U+200A", "U+2028", "U+2029", "U+202F",
    "U+205F", "U+3000", "U+FEFF" }

RECURSIVE TrimStart(_)
TrimStart(s) ==
  IF s # <<>> /\ Head(s) \in WhiteSpace THEN TrimStart(Tail(s)) ELSE s

RECURSIVE TrimEnd(_)
TrimEnd(s) ==
  IF s # <<>> /\ s[Len(s)] \in WhiteSpace
    THEN TrimEnd(SubSeq(s, 1, Len(s) - 1))
    ELSE s

\* inputValue.trim()
Trim(s) == TrimEnd(TrimStart(s))

RECURSIVE Split(_, _)
\* s.split(sep) for a one-character separator.
Split(s, sep) ==
  IF \E i \in 1..Len(s) : s[i] = sep
    THEN LET i == CHOOSE k \in 1..Len(s) :
                    s[k] = sep /\ \A j \in 1..(k - 1) : s[j] # sep
         IN <<SubSeq(s, 1, i - 1)>> \o Split(SubSeq(s, i + 1, Len(s)), sep)
    ELSE <<s>>

ImageSlash == <<"i","m","a","g","e","/">>

AllowedTypes ==
  { ImageSlash \o <<"j","p","e","g">>,
    ImageSlash \o <<"j","p","g">>,
    ImageSlash \o <<"p","n","g">>,
    ImageSlash \o <<"g","i","f">>,
    ImageSlash \o <<"w","e","b","p">> }

MaxImageSize == 5 * 1024 * 1024

InvalidTypeError == "Please select a valid image file (JPEG, PNG, GIF, or WebP)"

ImageSizeError == "Image size must be less than 5MB"

SizeFirstError(file) ==
  IF file.size > MaxImageSize THEN ImageSizeError
  ELSE IF file.type \notin AllowedTypes THEN InvalidTypeError
  ELSE ""

\* The error handleImageSelect reports for a file, "" when it accepts it: the
\* type check comes before the size check.
ImageSelectError(file) ==
  IF file.type \notin AllowedTypes THEN InvalidTypeError
  ELSE IF file.size > MaxImageSize THEN ImageSizeError
  ELSE ""

\* The result of reader.readAsDataURL(file).
ReadAsDataURL(file) ==
  <<"d","a","t","a",":">> \o file.type \o Base64Comma \o Base64Encode(file.bytes)

\* The content createUserMessage builds from the state it reads.
UserContent(input, image, preview) ==
  (IF Trim(input) # <<>> THEN <<TextItem(input)>> ELSE <<>>)
  \o (IF Truthy(image) /\ Truthy(preview)
        THEN <<ImageItem(Split(image.type, "/")[2], preview)>>
        ELSE <<>>)

\* The condition of handleSubmit.
SubmitCondition(input, image) == Trim(input) # <<>> \/ Truthy(image)

AlwaysEnabled(loading, input, image) == Trim(input) # <<>> \/ Truthy(image)

\* The send button is enabled (isDisabled is false); with the button disabled
\* the form cannot be submitted.
SendEnabled(loading, input, image) ==
  ~(loading \/ (Trim(input) = <<>> /\ ~Truthy(image)))

\* --- the response of amplifyClient.queries.chat -------------------------

\* An object of the error list: its keys (character sequences) and values,
\* as pairs in insertion order.
JSDetail(pairs) == [typeof |-> "object", pairs |-> pairs]

IsArray(v) == "array" \in DOMAIN v

IsDetail(v) == "pairs" \in DOMAIN v

RECURSIVE Text(_)
\* The text of a sequence of characters.
Text(chars) == IF chars = <<>> THEN "" ELSE Head(chars) \o Text(Tail(chars))

HexDigits ==
  <<"0","1","2","3","4","5","6","7","8","9","A","B","C","D","E","F">>

LowerHexDigits ==
  <<"0","1","2","3","4","5","6","7","8","9","a","b","c","d","e","f">>

\* The code units U+0000 to U+001F, U+D800 to U+DBFF and U+DC00 to U+DFFF,
\* written as their code points.
ControlCharacters ==
  { "U+00" \o HexDigits[a] \o HexDigits[b] : a \in 1..2, b \in 1..16 }

HighSurrogates ==
  { "U+D" \o HexDigits[a] \o HexDigits[b] \o HexDigits[c] :
      a \in 9..12, b \in 1..16, c \in 1..16 }

LowSurrogates ==
  { "U+D" \o HexDigits[a] \o HexDigits[b] \o HexDigits[c] :
      a \in 13..16, b \in 1..16, c \in 1..16 }

\* The escape \uxxxx of a control character or of a surrogate: its code
\* point in lower-case hexadecimal digits.
UnicodeEscape(c) ==
  IF c \in ControlCharacters
    THEN LET d == CHOOSE t \in (1..2) \X (1..16) :
                    "U+00" \o HexDigits[t[1]] \o HexDigits[t[2]] = c
         IN "\\u00" \o LowerHexDigits[d[1]] \o LowerHexDigits[d[2]]
    ELSE LET d == CHOOSE t \in (9..16) \X (1..16) \X (1..16) :
                    "U+D" \o HexDigits[t[1]] \o HexDigits[t[2]]
                          \o HexDigits[t[3]] = c
         IN "\\ud" \o LowerHexDigits[d[1]] \o LowerHexDigits[d[2]]
                   \o LowerHexDigits[d[3]]

\* A code unit inside a JSON string literal, a surrogate being one without
\* its partner.
JSONEscape(c) ==
  IF c = "\"" THEN "\\\""
  ELSE IF c = "\\" THEN "\\\\"
  ELSE IF c \in {"\n", "U+000A"} THEN "\\n"
  ELSE IF c \in {"\t", "U+0009"} THEN "\\t"
  ELSE IF c \in {"\r", "U+000D"} THEN "\\r"
  ELSE IF c \in {"\f", "U+000C"} THEN "\\f"
  ELSE IF c = "U+0008" THEN "\\b"
  ELSE IF c \in ControlCharacters \cup HighSurrogates \cup LowSurrogates
    THEN UnicodeEscape(c)
  ELSE c

RECURSIVE JSONEscaped(_)
\* The characters of a JSON string literal: a high surrogate followed by a low
\* one is a character of its own and written as it is.
JSONEscaped(chars) ==
  IF chars = <<>> THEN ""
  ELSE IF Len(chars) >= 2 /\ chars[1] \in HighSurrogates
            /\ chars[2] \in LowSurrogates
    THEN chars[1] \o chars[2] \o JSONEscaped(SubSeq(chars, 3, Len(chars)))
  ELSE JSONEscape(Head(chars)) \o JSONEscaped(Tail(chars))

JSONQuote(chars) == "\"" \o JSONEscaped(chars) \o "\""

\* The pairs JSON.stringify writes: those whose value is not undefined.
DefinedPairs(pairs) == SelectSeq(pairs, LAMBDA pair : ~IsUndefined(pair[2]))

RECURSIVE JSONStringify(_), StringifyPairs(_), StringifyElements(_)
StringifyPairs(pairs) ==
  IF pairs = <<>> THEN ""
  ELSE JSONQuote(Head(pairs)[1]) \o ":" \o JSONStringify(Head(pairs)[2])
       \o (IF Len(pairs) > 1 THEN "," ELSE "")
       \o StringifyPairs(Tail(pairs))

StringifyElements(list) ==
  IF list = <<>> THEN ""
  ELSE (IF IsUndefined(Head(list)) THEN "null" ELSE JSONStringify(Head(list)))
       \o (IF Len(list) > 1 THEN "," ELSE "")
       \o StringifyElements(Tail(list))

\* JSON.stringify of a string, a number, null, an array or an object.
JSONStringify(v) ==
  IF IsString(v) THEN JSONQuote(v.chars)
  ELSE IF IsNumber(v) THEN ToString(v.value)
  ELSE IF IsNull(v) THEN "null"
  ELSE IF IsArray(v) THEN "[" \o StringifyElements(v.array) \o "]"
  ELSE "{" \o StringifyPairs(DefinedPairs(v.pairs)) \o "}"

RECURSIVE JSToString(_), JoinElements(_)
\* Array.prototype.join(","): null and undefined elements give "".
JoinElements(list) ==
  IF list = <<>> THEN ""
  ELSE (IF IsUndefined(Head(list)) \/ IsNull(Head(list))
          THEN "" ELSE JSToString(Head(list)))
       \o (IF Len(list) > 1 THEN "," ELSE "")
       \o JoinElements(Tail(list))

\* String(v), which is also the conversion new Error(v) applies to v.
JSToString(v) ==
  IF IsUndefined(v) THEN "undefined"
  ELSE IF IsString(v) THEN Text(v.chars)
  ELSE IF IsNumber(v) THEN ToString(v.value)
  ELSE IF IsNull(v) THEN "null"
  ELSE IF IsArray(v) THEN JoinElements(v.array)
  ELSE "[object Object]"

RECURSIVE Lookup(_, _)
\* The value of the key in the pairs, undefined when there is none.
Lookup(pairs, key) ==
  IF pairs = <<>> THEN JSUndefined
  ELSE IF Head(pairs)[1] = key THEN Head(pairs)[2]
  ELSE Lookup(Tail(pairs), key)

\* detail?.key
Field(detail, key) ==
  IF IsDetail(detail) THEN Lookup(detail.pairs, key) ELSE JSUndefined

\* typeof detail === 'object' ? JSON.stringify(detail) : String(detail)
DetailText(detail) ==
  IF detail.typeof = "object" THEN JSONStringify(detail) ELSE JSToString(detail)

\* errors?.[0]
FirstError(errors) ==
  IF IsUndefined(errors) \/ IsNull(errors) THEN JSUndefined
  ELSE IF errors.array = <<>> THEN JSUndefined
  ELSE errors.array[1]

MessageKey == <<"m","e","s","s","a","g","e">>

ErrorTypeKey == <<"e","r","r","o","r","T","y","p","e">>

\* The message of the Error thrown in the else branch of fetchChatResponse:
\* the first truthy operand of the || chain, converted by new Error.
ErrorMessage(errors) ==
  LET first == FirstError(errors)
      text == DetailText(first)
  IN IF Truthy(Field(first, MessageKey))
       THEN JSToString(Field(first, MessageKey))
     ELSE IF Truthy(Field(first, ErrorTypeKey))
       THEN JSToString(Field(first, ErrorTypeKey))
     ELSE IF text # "" THEN text
     ELSE "An unknown error occurred."

\* A structured message returned as data.
JSObject(m) == [typeof |-> "object", value |-> m]

Throws(outcome) == "thrown" \in DOMAIN outcome

\* The condition !errors && data.
HasData(outcome) == ~Truthy(outcome.errors) /\ Truthy(outcome.data)

\* The outcome reaches setConversation.
Succeeds(outcome) ==
  /\ ~Throws(outcome)
  /\ HasData(outcome)
  /\ IsString(outcome.data) => JSONParses(outcome.data)

ResponseMessage(outcome) ==
  IF IsString(outcome.data) THEN JSONParse(outcome.data) ELSE outcome.data.value

\* The message of the error the catch block receives.
CaughtMessage(outcome) ==
  IF Throws(outcome) THEN outcome.thrown
  ELSE IF HasData(outcome) THEN "Failed to parse response data"
  ELSE ErrorMessage(outcome.errors)

ReplyFirst(prevConversation, message, outcome) ==
  IF Succeeds(outcome)
    THEN prevConversation \o <<ResponseMessage(outcome), message>>
    ELSE prevConversation

CommitAlways(prevConversation, message, outcome) ==
  IF Succeeds(outcome)
    THEN prevConversation \o <<message, ResponseMessage(outcome)>>
    ELSE Append(prevConversation, message)

\* The conversation after the exchange: the functional update of
\* setConversation on success, no update otherwise.
ResolvedConversation(prevConversation, message, outcome) ==
  IF Succeeds(outcome)
    THEN prevConversation \o <<message, ResponseMessage(outcome)>>
    ELSE prevConversation

\* ------------------------------------------------------------------------
\* Bounds and input sets
\* ------------------------------------------------------------------------

MaxMessages == 2

MaxItems == 2

MaxExchanges == 2

\* The FileReaders that may be reading at the same time.
MaxReaders == 2

Roles == {"user", "assistant"}

ABC == <<65, 66, 67>>

QUJD == <<"Q","U","J","D">>

PngDataUri == DataImage \o <<"p","n","g">> \o Base64Comma \o QUJD

\* A header the pattern does not match: the subtype is not all lower case
\* letters.
SvgDataUri == DataImage \o <<"s","v","g","+","x","m","l">> \o Base64Comma \o QUJD

\* The content items conversations handed to the handler are made of.
ItemPool ==
  { TextItem(<<"h","i">>),
    ImageItem("png", JSString(PngDataUri)),
    ImageItem("png", JSString(QUJD)),
    ImageItem("svg", JSString(SvgDataUri)),
    ImageItem("png", JSString(<<>>)),
    ImageItem("jpeg", JSBuffer(ABC)),
    ImageItem("gif", JSNull) }

AssistantReply == Message("assistant", <<TextItem(<<"o","k">>)>>)

\* What client.send yields: a response with an output message, a response
\* without one, or an exception.
BedrockOutcomes ==
  { [output |-> [message |-> AssistantReply]],
    [output |-> JSNull],
    [thrown |-> "ThrottlingException"] }

\* The texts typed into the prompt.
InputValues == { <<>>, <<" ", "\t", "U+3000">>, <<"h","i">> }

\* The files picked in the file input. bytes is what the reader encodes (for
\* the large files a short stand-in for the content), size is File.size.
File(t, n, b) == [typeof |-> "object", type |-> t, size |-> n, bytes |-> b]

PngFile == File(ImageSlash \o <<"p","n","g">>, 3, ABC)

\* Another image of the same type, of exactly the largest accepted size.
MaxPngFile == File(ImageSlash \o <<"p","n","g">>, MaxImageSize, <<137, 80>>)

BigJpegFile ==
  File(ImageSlash \o <<"j","p","e","g">>, MaxImageSize + 1, <<255, 216>>)

TextFile == File(<<"t","e","x","t","/","p","l","a","i","n">>, 2, <<104, 105>>)

BigPdfFile ==
  File(<<"a","p","p","l","i","c","a","t","i","o","n","/","p","d","f">>,
       6 * 1024 * 1024, <<37, 80>>)

Files == { PngFile, MaxPngFile, BigJpegFile, TextFile, BigPdfFile }

\* What the remote call yields: data and errors, or an exception. The error
\* details are the shapes of GraphQL errors: with a message, with an errorType
\* only, and with neither.
ChatOutcomes ==
  { [data |-> JSONStringifyMessage(AssistantReply), errors |-> JSUndefined],
    [data |-> JSObject(AssistantReply), errors |-> JSNull],
    [data |-> NotJSON, errors |-> JSUndefined],
    [data |-> JSNull, errors |-> JSUndefined],
    [data |-> JSNull, errors |-> JSArray(<<>>)],
    [data |-> JSNull,
     errors |-> JSArray(<< JSDetail(<<
       <<ErrorTypeKey, JSString(<<"L","a","m","b","d","a",":",
                                  "U","n","h","a","n","d","l","e","d">>)>>,
       <<MessageKey, JSString(<<"B","o","o","m">>)>> >>) >>)],
    [data |-> JSNull,
     errors |-> JSArray(<< JSDetail(<<
       <<ErrorTypeKey, JSString(<<"U","n","a","u","t","h",
                                  "o","r","i","z","e","d">>)>>,
       <<MessageKey, JSNull>> >>) >>)],
    [data |-> JSNull,
     errors |-> JSArray(<< JSDetail(<<
       <<<<"p","a","t","h">>, JSArray(<<JSString(<<"c","h","a","t">>)>>)>>,
       <<<<"l","o","c","a","t","i","o","n","s">>,
         JSArray(<<JSDetail(<< <<<<"l","i","n","e">>, JSNumber(2)>>,
                               <<<<"c","o","l","u","m","n">>, JSNumber(3)>> >>)>>)>>,
       <<<<"c","a","u","s","e">>,
         JSString(<<"U+001B","n","o"," ","\"","c","h","a","t","\"">>)>> >>) >>)],
    [thrown |-> "Network Error"] }

\* CaughtMessage of each of these outcomes, evaluated once for all steps.
CaughtMessages == [outcome \in ChatOutcomes |-> CaughtMessage(outcome)]

\* The argument of setError in the catch block.
DisplayedError(outcome) ==
  IF outcome \in ChatOutcomes
    THEN CaughtMessages[outcome]
    ELSE CaughtMessage(outcome)

\* ------------------------------------------------------------------------
\* State
\* ------------------------------------------------------------------------

VARIABLES
  conversation,   \* Chat: the visible history
  inputValue,     \* Chat: the text of the prompt
  selectedImage,  \* Chat: the picked File, or null
  imagePreview,   \* Chat: the data URL of the preview, or null
  error,          \* Chat: the displayed error, "" for none
  isLoading,      \* Chat: an exchange is in flight
  readers,        \* the FileReaders that have not yet fired onload: a bag
                  \* of the files they read
  calls,          \* the remote calls awaited: the message, the closure's
                  \* conversation and the request of each
  draft,          \* forwarding function: the conversation a caller puts together
  arg,            \* event.arguments.conversation of the invocation, or NoCall
  sent,           \* the messages of the ConverseCommand given to client.send
  result          \* what the handler returned or threw

uivars ==
  <<conversation, inputValue, selectedImage, imagePreview, error, isLoading,
    readers, calls>>

hvars == <<draft, arg, sent, result>>

vars == <<uivars, hvars>>

NoCall == [typeof |-> "undefined"]

NotSent == [typeof |-> "undefined"]

\* The state of a mounted Chat component.
ChatInit ==
  /\ conversation = <<>>
  /\ inputValue = <<>>
  /\ selectedImage = JSNull
  /\ imagePreview = JSNull
  /\ error = ""
  /\ isLoading = FALSE
  /\ readers = EmptyBag
  /\ calls = <<>>

\* No invocation of the forwarding function yet.
HandlerInit ==
  /\ draft = <<>>
  /\ arg = NoCall
  /\ sent = NotSent
  /\ result = NoCall

Init == ChatInit /\ HandlerInit

\* ------------------------------------------------------------------------
\* Chat component: event handlers and callbacks
\* ------------------------------------------------------------------------

HandleInputChange(value) ==
  /\ error' = ""
  /\ inputValue' = value
  /\ UNCHANGED <<conversation, selectedImage, imagePreview, isLoading,
                 readers, calls>>
  /\ UNCHANGED hvars

\* handleImageSelect for a change event that carries a file.
HandleImageSelect(file) ==
  /\ IF ImageSelectError(file) # ""
       THEN /\ error' = ImageSelectError(file)
            /\ UNCHANGED <<selectedImage, readers>>
       ELSE /\ BagCardinality(readers) < MaxReaders
            /\ selectedImage' = file
            /\ readers' = readers (+) SetToBag({file})
            /\ error' = ""
  /\ UNCHANGED <<conversation, inputValue, imagePreview, isLoading, calls>>
  /\ UNCHANGED hvars

\* reader.onload of one of the FileReaders created for the file.
ReaderOnLoad(file) ==
  /\ BagIn(file, readers)
  /\ readers' = readers (-) SetToBag({file})
  /\ imagePreview' = JSString(ReadAsDataURL(file))
  /\ UNCHANGED <<conversation, inputValue, selectedImage, error, isLoading,
                 calls>>
  /\ UNCHANGED hvars

\* removeImage, from the button shown with the preview.
RemoveImage ==
  /\ Truthy(imagePreview)
  /\ selectedImage' = JSNull
  /\ imagePreview' = JSNull
  /\ UNCHANGED <<conversation, inputValue, error, isLoading, readers, calls>>
  /\ UNCHANGED hvars

\* The submit event of the form: handleSubmit, createUserMessage and
\* fetchChatResponse up to its await.
HandleSubmit ==
  /\ SendEnabled(isLoading, inputValue, selectedImage)
  /\ Len(conversation) \div 2 + Len(calls) < MaxExchanges
  /\ IF SubmitCondition(inputValue, selectedImage)
       THEN LET message ==
                  Message("user",
                          UserContent(inputValue, selectedImage, imagePreview))
            IN /\ inputValue' = <<>>
               /\ selectedImage' = JSNull
               /\ imagePreview' = JSNull
               /\ isLoading' = TRUE
               /\ calls' = Append(calls,
                    [conversation |-> conversation,
                     message |-> message,
                     request |-> JSONStringifyConversation(
                                   Append(conversation, message))])
       ELSE UNCHANGED <<inputValue, selectedImage, imagePreview, isLoading,
                        calls>>
  /\ UNCHANGED <<conversation, error, readers>>
  /\ UNCHANGED hvars

\* fetchChatResponse after its await, for the i-th awaited call and the
\* outcome of that call.
FetchChatResponseResume(i, outcome) ==
  /\ i \in 1..Len(calls)
  /\ conversation' =
       ResolvedConversation(conversation, calls[i].message, outcome)
  /\ error' = IF Succeeds(outcome) THEN error ELSE DisplayedError(outcome)
  /\ isLoading' = FALSE
  /\ calls' = [k \in 1..(Len(calls) - 1) |->
                 IF k < i THEN calls[k] ELSE calls[k + 1]]
  /\ UNCHANGED <<inputValue, selectedImage, imagePreview, readers>>
  /\ UNCHANGED hvars

Next ==
  \/ \E value \in InputValues : HandleInputChange(value)
  \/ \E file \in Files : HandleImageSelect(file)
  \/ \E file \in Files : ReaderOnLoad(file)
  \/ RemoveImage
  \/ HandleSubmit
  \/ \E i \in 1..MaxExchanges, outcome \in ChatOutcomes :
       FetchChatResponseResume(i, outcome)

Spec == Init /\ [][Next]_vars

\* ------------------------------------------------------------------------
\* Forwarding function: invocations
\* ------------------------------------------------------------------------

RECURSIVE TotalItems(_)
TotalItems(c) ==
  IF c = <<>> THEN 0 ELSE Len(Head(c).content) + TotalItems(Tail(c))

\* The caller starts another message of the conversation it will send.
DraftMessage(role) ==
  /\ arg = NoCall
  /\ Len(draft) < MaxMessages
  /\ draft' = Append(draft, Message(role, <<>>))
  /\ UNCHANGED <<arg, sent, result>>
  /\ UNCHANGED uivars

\* The caller adds a content item to the last message.
DraftItem(item) ==
  /\ arg = NoCall
  /\ draft # <<>>
  /\ TotalItems(draft) < MaxItems
  /\ draft' = [draft EXCEPT ![Len(draft)].content = Append(@, item)]
  /\ UNCHANGED <<arg, sent, result>>
  /\ UNCHANGED uivars

\* The value of event.arguments.conversation for each way of passing the
\* conversation.
EventArguments ==
  { JSONStringifyConversation(draft), JSArray(draft), NotJSON }

\* The handler's result for an outcome of client.send.
HandlerResult(outcome) ==
  IF "thrown" \in DOMAIN outcome THEN [thrown |-> outcome.thrown]
  ELSE IF IsNull(outcome.output)
    THEN [thrown |-> "No message in the response output"]
    ELSE [returned |-> JSONStringifyMessage(outcome.output.message)]

\* handler up to its await: the event, processMessages and the call of
\* client.send, or the error processMessages throws, logged and re-thrown.
HandlerStart(conversationArg) ==
  /\ arg = NoCall
  /\ arg' = conversationArg
  /\ LET processed == ProcessMessages(conversationArg)
     IN IF processed.ok
          THEN /\ sent' = [messages |-> processed.messages]
               /\ UNCHANGED result
          ELSE /\ sent' = NotSent
               /\ result' = [thrown |-> processed.error]
  /\ UNCHANGED draft
  /\ UNCHANGED uivars

\* handler after its await, for the outcome of client.send.
HandlerResume(outcome) ==
  /\ sent # NotSent
  /\ result = NoCall
  /\ result' = HandlerResult(outcome)
  /\ UNCHANGED <<draft, arg, sent>>
  /\ UNCHANGED uivars

HandlerNext ==
  \/ \E role \in Roles : DraftMessage(role)
  \/ \E item \in ItemPool : DraftItem(item)
  \/ \E conversationArg \in EventArguments : HandlerStart(conversationArg)
  \/ \E outcome \in BedrockOutcomes : HandlerResume(outcome)

SpecHandler == Init /\ [][HandlerNext]_vars

\* ------------------------------------------------------------------------
\* Properties of the chat component (checked under Spec)
\* ------------------------------------------------------------------------

\* A step of HandleSubmit that dispatches a remote call.
Dispatches == HandleSubmit /\ Len(calls') = Len(calls) + 1

\* A step in which an awaited call resumes.
Resumed == Len(calls') < Len(calls)

\* C1: a submit whose remote call succeeds leaves the history as it was when
\* the submit was dispatched followed by exactly the user message and then the
\* assistant message; the dispatch empties the text buffer and the pending
\* attachment, the resumption leaves them alone (so they are still empty when
\* no user action came between), and loading is false afterwards.
C1_SuccessAppendsTwo ==
  [][ /\ Dispatches =>
           /\ inputValue' = <<>>
           /\ selectedImage' = JSNull
           /\ calls'[Len(calls')].conversation = conversation
      /\ Resumed => \A i \in 1..Len(calls), outcome \in ChatOutcomes :
           (Succeeds(outcome) /\ FetchChatResponseResume(i, outcome)) =>
             /\ calls[i].message.role = "user"
             /\ conversation' = calls[i].conversation
                                  \o <<calls[i].message, ResponseMessage(outcome)>>
             /\ \A k \in 1..Len(calls[i].conversation) :
                  conversation'[k] = calls[i].conversation[k]
             /\ Len(conversation') = Len(calls[i].conversation) + 2
             /\ inputValue' = inputValue
             /\ selectedImage' = selectedImage
             /\ isLoading' = FALSE
    ]_vars

\* A second exchange has succeeded on top of a first one.
C1_Witness ==
  /\ Len(conversation) = 4
  /\ conversation[3].role = "user"
  /\ conversation[4] = AssistantReply
  /\ ~isLoading
  /\ inputValue = <<>>
  /\ selectedImage = JSNull

\* The failures of the remote call the claim lists: it throws, it returns an
\* error list, it returns no data, or it returns a string that does not parse.
FailedOutcome(outcome) ==
  \/ "thrown" \in DOMAIN outcome
  \/ IsArray(outcome.errors)
  \/ ~Truthy(outcome.data)
  \/ (IsString(outcome.data) /\ ~JSONParses(outcome.data))

\* C2: a submit that fails leaves the history as it was before the submit,
\* loading false and the error a non-empty string.
C2_FailureKeepsHistory ==
  [][ Resumed => \A i \in 1..Len(calls), outcome \in ChatOutcomes :
        (FailedOutcome(outcome) /\ FetchChatResponseResume(i, outcome)) =>
          /\ conversation' = calls[i].conversation
          /\ conversation' = conversation
          /\ isLoading' = FALSE
          /\ error' # ""
    ]_vars

\* An exchange failed to parse after an earlier one had succeeded.
C2_Witness ==
  /\ error = "Failed to parse response data"
  /\ Len(conversation) = 2
  /\ ~isLoading
  /\ calls = <<>>

\* The guard the claim states for submit.
EligibleForSubmit ==
  \/ Trim(inputValue) # <<>>
  \/ (Truthy(selectedImage) /\ Truthy(imagePreview))

\* C3: submit changes nothing unless the trimmed text is non-empty or an
\* attachment with a ready preview is pending, so no user message with an
\* empty content is ever built or sent.
C3_SubmitGuard ==
  [][ /\ (HandleSubmit /\ ~EligibleForSubmit) => UNCHANGED vars
      /\ \A i \in 1..Len(calls') : calls'[i].message.content # <<>>
    ]_vars

\* C4: at most one remote call is outstanding, it is outstanding exactly
\* while loading is true, and its request is the visible history at dispatch
\* (which is still the visible history) plus one new user message.
C4_SingleExchange ==
  /\ Len(calls) <= 1
  /\ isLoading <=> (calls # <<>>)
  /\ \A i \in 1..Len(calls) :
       /\ calls[i].conversation = conversation
       /\ JSONParses(calls[i].request)
       /\ JSONParse(calls[i].request) = Append(conversation, calls[i].message)
       /\ calls[i].message.role = "user"

\* A call is outstanding on top of a non-empty history.
C4_Witness ==
  /\ Len(calls) = 1
  /\ isLoading
  /\ Len(conversation) = 2
  /\ Len(JSONParse(calls[1].request)) = 3

\* C5: a dispatched submit clears the error, so the error is unset after a
\* successful submit.
C5_SubmitClearsError ==
  [][ /\ Dispatches => error' = ""
      /\ Resumed => \A i \in 1..Len(calls), outcome \in ChatOutcomes :
           (Succeeds(outcome) /\ FetchChatResponseResume(i, outcome)) =>
             error' = ""
    ]_vars

\* The file fails one of the two checks of the claim.
Rejected(file) == file.type \notin AllowedTypes \/ file.size > 5 * 1024 * 1024

\* C6 as stated: a rejected file sets the error (an oversize file to the size
\* message) and changes neither the attachment, its preview nor the history;
\* an accepted file becomes the attachment.
C6_RejectsAsStated ==
  [][ \A file \in Files :
        HandleImageSelect(file) =>
          IF Rejected(file)
            THEN /\ error' # ""
                 /\ file.size > 5 * 1024 * 1024 => error' = ImageSizeError
                 /\ UNCHANGED <<selectedImage, imagePreview, conversation>>
            ELSE selectedImage' = file
    ]_vars

\* C6 amended: a file of a type outside the allow-list, whatever its size,
\* sets the error to the invalid-type message; a file of an allowed type that
\* is larger than 5 MiB sets it to the size message; both leave the
\* attachment, its preview and the history alone; any other file becomes the
\* attachment.
C6_RejectsAmended ==
  [][ \A file \in Files :
        HandleImageSelect(file) =>
          IF Rejected(file)
            THEN /\ error' # ""
                 /\ file.type \notin AllowedTypes => error' = InvalidTypeError
                 /\ (file.type \in AllowedTypes /\ file.size > 5 * 1024 * 1024)
                      => error' = ImageSizeError
                 /\ UNCHANGED <<selectedImage, imagePreview, conversation>>
            ELSE selectedImage' = file
    ]_vars

\* An oversize file was rejected while an attachment with its preview was
\* pending.
C6_Witness ==
  /\ error = ImageSizeError
  /\ selectedImage = PngFile
  /\ imagePreview = JSString(ReadAsDataURL(PngFile))

\* The remote call reported no error detail: the error list is absent or
\* empty.
NoDetail(outcome) ==
  ~IsArray(outcome.errors) \/ outcome.errors.array = <<>>

\* C9: the error of a failed submit is the message of the first error detail,
\* else its errorType, and the generic fallback when there is no data and no
\* error detail.
C9_ErrorFromFirstDetail ==
  [][ Resumed => \A i \in 1..Len(calls), outcome \in ChatOutcomes :
        ("data" \in DOMAIN outcome /\ ~Truthy(outcome.data)
           /\ FetchChatResponseResume(i, outcome)) =>
          IF NoDetail(outcome)
            THEN error' = "An unknown error occurred."
            ELSE LET message == Field(outcome.errors.array[1], MessageKey)
                     errorType == Field(outcome.errors.array[1], ErrorTypeKey)
                 IN /\ Truthy(message) => error' = Text(message.chars)
                    /\ (~Truthy(message) /\ Truthy(errorType))
                         => error' = Text(errorType.chars)
    ]_vars

\* The image item built from one file: its subtype and its data URL.
ItemOfFile(file) ==
  ImageItem(Split(file.type, "/")[2], JSString(ReadAsDataURL(file)))

\* C10: a preview is the encoding of the pending file, and a submitted image
\* item pairs a file's format with that file's bytes.
C10_PreviewOfPendingFile ==
  /\ Truthy(imagePreview) =>
       /\ Truthy(selectedImage)
       /\ imagePreview = JSString(ReadAsDataURL(selectedImage))
  /\ \A i \in 1..Len(calls) :
       \A j \in 1..Len(calls[i].message.content) :
         IsImage(calls[i].message.content[j]) =>
           \E file \in Files : calls[i].message.content[j] = ItemOfFile(file)

\* ------------------------------------------------------------------------
\* Properties of the normalizer (checked under SpecHandler)
\* ------------------------------------------------------------------------

\* The item keeps its bytes as they are: a text item, or an image item whose
\* bytes is not a string.
PassedThrough(item) ==
  ~IsImage(item) \/ ~IsString(item.image.source.bytes)

OnlyText(c) ==
  \A i \in 1..Len(c) : \A j \in 1..Len(c[i].content) : ~IsImage(c[i].content[j])

\* C7: the normalized conversation has the messages of the input, with their
\* roles, in their order, each with as many items of the same kinds in the
\* same order; text items and image items with binary bytes are unchanged,
\* and a conversation of text items only is unchanged as a whole.
C7_OrderPreserved ==
  sent # NotSent =>
    LET inp == ParsedConversation(arg)
        out == sent.messages
    IN /\ Len(out) = Len(inp)
       /\ \A i \in 1..Len(inp) :
            /\ out[i].role = inp[i].role
            /\ Len(out[i].content) = Len(inp[i].content)
            /\ \A j \in 1..Len(inp[i].content) :
                 /\ IsImage(out[i].content[j]) = IsImage(inp[i].content[j])
                 /\ PassedThrough(inp[i].content[j])
                      => out[i].content[j] = inp[i].content[j]
       /\ OnlyText(inp) => out = inp

\* Two messages were normalized, with a text item and a binary image among
\* their items.
C7_Witness ==
  /\ sent # NotSent
  /\ Len(sent.messages) = 2
  /\ sent.messages[1].role # sent.messages[2].role
  /\ \E i \in 1..2 : \E j \in 1..Len(sent.messages[i].content) :
       sent.messages[i].content[j] = TextItem(<<"h","i">>)
  /\ \E i \in 1..2 : \E j \in 1..Len(sent.messages[i].content) :
       sent.messages[i].content[j] = ImageItem("jpeg", JSBuffer(ABC))

\* C8: every image item whose bytes was a string in the input goes to the
\* inference client with the same format and binary bytes, so no image item
\* with string bytes is handed over.
C8_StringBytesBecomeBinary ==
  sent # NotSent =>
    LET inp == ParsedConversation(arg)
        out == sent.messages
    IN \A i \in 1..Len(out) : \A j \in 1..Len(out[i].content) :
         /\ IsImage(out[i].content[j])
              => ~IsString(out[i].content[j].image.source.bytes)
         /\ (IsImage(inp[i].content[j])
               /\ IsString(inp[i].content[j].image.source.bytes)) =>
              /\ out[i].content[j].image.format = inp[i].content[j].image.format
              /\ "buffer" \in DOMAIN out[i].content[j].image.source.bytes

====
